---- MODULE Spec2Model ----
(***************************************************************************)
(* Model of src/deepsearch.py: the iterative research loop async_main,     *)
(* the per-link coroutine process_link and the helpers that parse the      *)
(* language model's replies.                                               *)
(*                                                                         *)
(* One action is one stretch of code between two suspension points of the  *)
(* event loop (an await on a network call).  The link coroutines of a      *)
(* round are separate processes that interleave at their awaits; the main  *)
(* coroutine waits for them at asyncio.gather.                             *)
(***************************************************************************)
EXTENDS Integers, Sequences, FiniteSets, TLC

\* ------------------------------------------------------------------ bounds

\* n_iterations is drawn from 0..MaxIterations
MaxIterations == 2
\* max_links_per_query is drawn from 1..MaxLinks
MaxLinks == 2

\* ------------------------------------------------------- program constants

\* line 329: config["n_queries"] when the configuration leaves it out
DefaultNQueries == 2
\* line 253: the default of get_new_search_queries_async's n_queries
ReplanNQueries == 4
\* line 132: the timeout of the page GET, in seconds
FetchTimeout == 20
\* line 50: the timeout of the chat-completion POST; 0 switches the timer off
LlamaTimeout == 0

\* ------------------------------------------------------------ JSON values
\* A decoded JSON value (a Python object).  t is its type; items holds the
\* elements of a list, the characters of a string or the keys of a dict
\* (what iterating the object yields); n is the value of a number.

JList(s) == [t |-> "list", items |-> s, n |-> 0]
JStr(s) == [t |-> "str", items |-> s, n |-> 0]
JNum(k) == [t |-> "num", items |-> <<>>, n |-> k]
JDict(keys) == [t |-> "dict", items |-> keys, n |-> 0]
\* Python's None (JSON null)
None == [t |-> "null", items |-> <<>>, n |-> 0]

\* bool(v): Python truthiness
Truthy(v) ==
    CASE v.t \in {"list", "str", "dict"} -> Len(v.items) > 0
      [] v.t = "num" -> v.n # 0
      [] OTHER -> FALSE

\* iter(v) succeeds (list.extend(v), for q in v); otherwise TypeError
Iterable(v) == v.t \in {"list", "str", "dict"}

\* v[idx] with an integer idx succeeds on a list or a string; a dict with
\* string keys raises KeyError
IntIndexable(v) == v.t \in {"list", "str"}

\* needle in haystack, both strings (sequences of characters)
IsSubstring(needle, hay) ==
    \E k \in 0..(Len(hay) - Len(needle)) :
        \A j \in 1..Len(needle) : hay[k + j] = needle[j]

Yes == <<"Y", "e", "s">>
No == <<"N", "o">>

\* ----------------------------------------------------------- environment

\* Search queries are one-character strings, so that a string value under
\* "queries" iterates into strings of the same domain.
Queries == {"a", "b"}
URLs == {"u1", "u2"}

\* Sequences over S of length at most k
SeqsUpTo(S, k) == UNION {[1..m -> S] : m \in 0..k}

\* The text of a model reply: None-like kinds, and a reply whose first
\* {...} span is absent, is not valid JSON, or decodes to an object.  The
\* decoded object has one member, key |-> val.
Content(kind, key, val) == [kind |-> kind, key |-> key, val |-> val]
NoContent == Content("none", "", None)

\* What the chat-completion endpoint can do with one request.
HttpOutcomes(vals, keys) ==
    {[status |-> s, content |-> NoContent] : s \in {"neterr", "http500", "badshape"}}
    \cup {[status |-> "ok", content |-> Content(k, "", None)] :
              k \in {"empty", "nojson", "badjson"}}
    \cup {[status |-> "ok", content |-> Content("json", key, v)] :
              key \in keys, v \in vals}

\* Values a model may put under "queries"
QueryValues ==
    {JList(s) : s \in {<<>>, <<"a">>, <<"a", "b">>}}
    \cup {JStr(<<>>), JStr(<<"a", "b">>), JNum(0), JNum(5), None,
          JDict(<<>>), JDict(<<"a">>)}

\* Values a model may put under "useful"
UsefulValues ==
    {JStr(Yes), JStr(No), JStr(<<"Y", "e", "s", "!">>), JStr(<<"N", "o", "p", "e">>),
     JStr(<<"M", "a", "y", "b", "e">>), JStr(<<>>), None, JNum(5), JList(<<"Yes">>)}

\* Values a model may put under "relevant"
RelevantValues ==
    {JStr(<<"f">>), JStr(<<"g">>), JStr(<<>>), None, JList(<<"f">>)}

QueryOutcomes == HttpOutcomes(QueryValues, {"queries", "other"})
UsefulOutcomes == HttpOutcomes(UsefulValues, {"useful", "other"})
RelevantOutcomes == HttpOutcomes(RelevantValues, {"relevant", "other"})
ReportOutcomes ==
    {[status |-> s, content |-> NoContent] : s \in {"neterr", "http500", "badshape"}}
    \cup {[status |-> "ok", content |-> Content(k, "", None)] : k \in {"empty", "nojson"}}

\* What the search provider can do with one query: raise, or yield hrefs
SearchOutcomes(max) ==
    {[ok |-> FALSE, hrefs |-> <<>>]}
    \cup {[ok |-> TRUE, hrefs |-> s] : s \in SeqsUpTo(URLs, max)}

\* The page a site serves at a URL within one round
PageAt(link) == IF link = "u1" THEN "<h1>" ELSE "<h2>"

\* What a page GET can do: raise, a non-200 status, or 200 with a body
\* (empty, the site's page, or markup the converter rejects)
FetchOutcomes(link) ==
    {[status |-> s, body |-> ""] : s \in {"neterr", "http404"}}
    \cup {[status |-> "http200", body |-> b] : b \in {"", PageAt(link), "<bad>"}}

\* A script fixes the response to every request of a session: the reply
\* to the initial query generation and to the replanning of each round, the
\* search provider's answer to each query, and for each URL the page GET,
\* the usefulness reply and the extraction reply.
Unscripted == [on |-> FALSE]

OkJson(key, val) == [status |-> "ok", content |-> Content("json", key, val)]

ScriptedQueryOutcomes ==
    {OkJson("queries", v) : v \in {JList(<<"a", "b">>), JList(<<>>), JDict(<<"a">>)}}

ScriptedSearchOutcomes ==
    {[ok |-> FALSE, hrefs |-> <<>>],
     [ok |-> TRUE, hrefs |-> <<"u1", "u2">>],
     [ok |-> TRUE, hrefs |-> <<"u2", "u1">>]}

ScriptedLinkOutcomes(link) ==
    {[fetch |-> [status |-> "http404", body |-> ""],
      useful |-> OkJson("useful", JStr(No)),
      relevant |-> OkJson("relevant", JStr(<<>>))],
     [fetch |-> [status |-> "http200", body |-> PageAt(link)],
      useful |-> OkJson("useful", JStr(<<"M", "a", "y", "b", "e">>)),
      relevant |-> OkJson("relevant", JStr(<<>>))]}
    \cup {[fetch |-> [status |-> "http200", body |-> PageAt(link)],
           useful |-> OkJson("useful", JStr(Yes)),
           relevant |-> OkJson("relevant", v)] :
              v \in {JStr(<<"f">>), JStr(<<"g">>), JList(<<"f">>)}}

ScriptedReport == [status |-> "ok", content |-> Content("nojson", "", None)]

Scripts ==
    {[on |-> TRUE, queries |-> q, search |-> s, link |-> l] :
        q \in [1..(MaxIterations + 1) -> ScriptedQueryOutcomes],
        s \in [Queries -> ScriptedSearchOutcomes],
        l \in {f \in [URLs -> UNION {ScriptedLinkOutcomes(u) : u \in URLs}] :
                  \A u \in URLs : f[u] \in ScriptedLinkOutcomes(u)}}

\* Scripts of sessions that evaluate one link: every query finds the link
\* u1, every replanning proposes the query again, and the page GET, the
\* usefulness reply and the extraction reply range over everything the
\* remotes can do.
LinkScripts ==
    {[on |-> TRUE,
      queries |-> [k \in 1..(MaxIterations + 1) |-> OkJson("queries", JList(<<"a">>))],
      search |-> [q \in Queries |-> [ok |-> TRUE, hrefs |-> <<"u1">>]],
      link |-> [u \in URLs |-> l]] :
        l \in [fetch : FetchOutcomes("u1"), useful : UsefulOutcomes,
               relevant : RelevantOutcomes]}

\* ------------------------------------------------------------- helpers

\* lines 37-64
call_llamacpp_async(outcome) ==
    IF outcome.status = "ok" THEN outcome.content ELSE NoContent

\* `if response:` -- None and the empty string are falsy
HasReply(response) == response.kind \notin {"none", "empty"}

\* lines 31-35: ok = FALSE stands for the raised exception
extract_json(response) ==
    IF response.kind = "json"
    THEN [ok |-> TRUE, key |-> response.key, val |-> response.val]
    ELSE [ok |-> FALSE, key |-> "", val |-> None]

\* dict.get(key, default) on the decoded object
Get(obj, key, default) == IF obj.key = key THEN obj.val ELSE default

\* lines 89-99 and 281-291: the value is assigned before the isinstance
\* check, so the exception raised for a non-list leaves it in place
ParseQueries(response) ==
    IF ~HasReply(response) THEN JList(<<>>)
    ELSE LET r == extract_json(response) IN
         IF ~r.ok THEN JList(<<>>)
         ELSE Get(r, "queries", JList(<<>>))

\* A slot of a request's text.  A replacement field of an f-string holds
\* the value of its expression; the same braces in a literal without the
\* f prefix are sent as they are written.
Interpolated(value) == [interpolated |-> TRUE, text |-> value]
Verbatim(field) == [interpolated |-> FALSE, text |-> <<field>>]

\* lines 75-80: the prompt names the number of queries asked for
QueriesPrompt(n_queries) == [up_to |-> n_queries]

\* lines 81-84: one f-string
GenerateRequest(user_query, n_queries) ==
    [user_query |-> Interpolated(<<user_query>>),
     prompt |-> Interpolated(QueriesPrompt(n_queries))]

\* lines 260-277: adjacent literals, of which only the first and the last
\* carry the f prefix
ReplanRequest(user_query, previous_search_queries, all_contexts, n_queries) ==
    [user_query |-> Interpolated(<<user_query>>),
     previous_search_queries |-> Verbatim("{previous_search_queries}"),
     context_combined |-> Verbatim("{context_combined}"),
     prompt |-> Verbatim("{prompt}")]

\* lines 199-207: adjacent literals, of which only the first carries the
\* f prefix
ExtractRequest(user_query, search_query, page_text) ==
    [user_query |-> Interpolated(<<user_query>>),
     search_query |-> Verbatim("{search_query}"),
     page_text |-> Verbatim("{page_text}"),
     prompt |-> Verbatim("{prompt}")]

\* No request
NoRequest == <<>>

\* Variant of Extend: the list is replaced by the items
Extend_assign(list, items) == items

\* lines 347 and 386: list.extend(items)
Extend(list, items) == list \o items

generate_search_queries_async(outcome) == ParseQueries(call_llamacpp_async(outcome))

get_new_search_queries_async(outcome) == ParseQueries(call_llamacpp_async(outcome))

\* lines 101-118
perform_ddg_search(outcome) == IF outcome.ok THEN outcome.hrefs ELSE <<>>

\* lines 120-139
fetch_webpage_text_async(outcome) ==
    IF outcome.status = "http200" THEN outcome.body ELSE ""

\* HTML2Text().handle(page): ok = FALSE stands for the raised exception
HTML2Text(page) ==
    CASE page = "<h1>" -> [ok |-> TRUE, text |-> "p1"]
      [] page = "<h2>" -> [ok |-> TRUE, text |-> "p2"]
      [] OTHER -> [ok |-> FALSE, text |-> ""]

\* Variant of is_page_useful_async: the function fails open, "No" is
\* returned only for a string that names it
is_page_useful_async_open(outcome) ==
    LET response == call_llamacpp_async(outcome)
        usefulness == Get(extract_json(response), "useful", None)
    IN IF usefulness.t = "str" /\ IsSubstring(No, usefulness.items)
          /\ ~IsSubstring(Yes, usefulness.items)
       THEN "No" ELSE "Yes"

\* lines 162-181
is_page_useful_async(outcome) ==
    LET response == call_llamacpp_async(outcome) IN
    IF ~HasReply(response) THEN "No"
    ELSE LET r == extract_json(response) IN
         IF ~r.ok THEN "No"
         ELSE LET usefulness == Get(r, "useful", None) IN
              IF ~Truthy(usefulness) THEN "No"
              ELSE IF usefulness \in {JStr(Yes), JStr(No)}
                   THEN (IF usefulness = JStr(Yes) THEN "Yes" ELSE "No")
                   ELSE CASE usefulness.t = "str" ->
                                 (IF IsSubstring(Yes, usefulness.items) THEN "Yes"
                                  ELSE "No")
                          [] usefulness.t \in {"list", "dict"} ->
                                 (IF \E i \in 1..Len(usefulness.items) :
                                        usefulness.items[i] = "Yes"
                                  THEN "Yes" ELSE "No")
                          [] OTHER -> "No"

\* lines 209-221
extract_relevant_context_async(outcome) ==
    LET response == call_llamacpp_async(outcome) IN
    IF ~HasReply(response) THEN JStr(<<>>)
    ELSE LET r == extract_json(response) IN
         IF ~r.ok THEN JStr(<<>>)
         ELSE LET relevant_ctx == Get(r, "relevant", None) IN
              IF Truthy(relevant_ctx) THEN relevant_ctx ELSE JStr(<<>>)

\* "\n".join(all_contexts) raises TypeError unless every item is a str
JoinOK(ctxs) == \A i \in 1..Len(ctxs) : ctxs[i].t = "str"

RECURSIVE Join(_)
Join(ctxs) ==
    IF ctxs = <<>> THEN <<>>
    ELSE IF Len(ctxs) = 1 THEN ctxs[1].items
    ELSE ctxs[1].items \o <<"\n">> \o Join(Tail(ctxs))


\* --------------------------------------------------------------- process_link

\* lines 223-251: the coroutine as a whole, from the three responses it gets
process_link(fetch_outcome, useful_outcome, relevant_outcome) ==
    LET page == fetch_webpage_text_async(fetch_outcome) IN
    IF page = "" THEN None
    ELSE IF ~HTML2Text(page).ok THEN None
    ELSE IF is_page_useful_async(useful_outcome) # "Yes" THEN None
    ELSE LET context == extract_relevant_context_async(relevant_outcome) IN
         IF Truthy(context) THEN context ELSE None

\* ------------------------------------------------------------------ state

VARIABLES
    pc,                  \* where async_main is
    error,               \* the uncaught exception that ended async_main, or ""
    user_query,          \* config["user_query"]
    n_queries,           \* config["n_queries"]
    n_iterations,        \* config["n_iterations"]
    max_links,           \* config["max_links_per_query"]
    new_search_queries,  \* the current round's query set
    all_search_queries,  \* the query history
    aggregated_contexts, \* the aggregated context
    iteration,           \* the loop counter
    search_results,      \* the round's search results, one list per query
    unique_links,        \* the round's link -> query dict, in insertion order
    tasks,               \* the round's process_link coroutines
    finished,            \* the round's coroutines in the order they returned
    final_report,        \* the text printed as the report
    rounds,              \* history: rounds started
    initial_queries,     \* history: what the initial query generation returned
    decide_calls,        \* history: replanning requests sent to the model
    report_calls,        \* history: report requests sent to the model
    report_context,      \* history: the context text of the report request
    query_request,       \* history: the text of the latest request for queries
    searched_queries,    \* history: the queries handed to the search provider
    replay               \* the scripted responses of a replayed session, if any

vars == <<pc, error, user_query, n_queries, n_iterations, max_links, new_search_queries,
          all_search_queries, aggregated_contexts, iteration, search_results,
          unique_links, tasks, finished, final_report, rounds,
          initial_queries, decide_calls, report_calls, report_context,
          query_request, searched_queries, replay>>

loop_vars == <<new_search_queries, all_search_queries, aggregated_contexts, iteration>>
round_vars == <<search_results, unique_links, tasks, finished>>
config_vars == <<user_query, n_queries, n_iterations, max_links, replay>>
history_vars == <<rounds, initial_queries, decide_calls, report_calls, report_context,
                  query_request, searched_queries>>

\* The responses the remotes may give at each call site: any, or the
\* scripted one in a replayed session
InitialReplies == IF replay.on THEN {replay.queries[1]} ELSE QueryOutcomes
ReplanReplies == IF replay.on THEN {replay.queries[rounds + 1]} ELSE QueryOutcomes
SearchReplies(queries) ==
    IF replay.on
    THEN {[i \in 1..Len(queries) |-> replay.search[queries[i]]]}
    ELSE [1..Len(queries) -> SearchOutcomes(max_links)]
FetchReplies(link) == IF replay.on THEN {replay.link[link].fetch} ELSE FetchOutcomes(link)
UsefulReplies(link) == IF replay.on THEN {replay.link[link].useful} ELSE UsefulOutcomes
RelevantReplies(link) ==
    IF replay.on THEN {replay.link[link].relevant} ELSE RelevantOutcomes
ReportReplies == IF replay.on THEN {ScriptedReport} ELSE ReportOutcomes

NoReportGenerated == Content("default", "", None)
NotYet == Content("unset", "", None)

\* lines 317-343, up to the await in generate_search_queries_async: the
\* configuration is read, the session state created and the request for
\* the initial queries sent
InitSession ==
    /\ pc = "generate"
    /\ error = ""
    /\ user_query = "Q"
    /\ n_queries = DefaultNQueries
    /\ n_iterations \in 0..MaxIterations
    /\ max_links = MaxLinks
    /\ new_search_queries = None
    /\ all_search_queries = <<>>
    /\ aggregated_contexts = <<>>
    /\ iteration = 0
    /\ search_results = <<>>
    /\ unique_links = <<>>
    /\ tasks = <<>>
    /\ finished = <<>>
    /\ final_report = NotYet
    /\ rounds = 0
    /\ initial_queries = None
    /\ decide_calls = 0
    /\ report_calls = 0
    /\ report_context = <<>>
    /\ query_request = GenerateRequest(user_query, n_queries)
    /\ searched_queries = <<>>

\* A session whose remotes answer freely
Init == InitSession /\ replay = Unscripted

\* A session replayed against a script fixed in advance
InitReplay == InitSession /\ replay \in Scripts

\* A session that evaluates one link against a script fixed in advance
InitLink == InitSession /\ replay \in LinkScripts

\* An uncaught exception leaves async_main
Raise(e) == pc' = "crashed" /\ error' = e

\* lines 394-395 up to the await in generate_final_report_async: the
\* context is joined and the report request is sent
StartReport(ctxs) ==
    IF JoinOK(ctxs)
    THEN /\ pc' = "report"
         /\ error' = error
         /\ report_calls' = report_calls + 1
         /\ report_context' = Join(ctxs)
    ELSE /\ Raise("TypeError")
         /\ UNCHANGED <<report_calls, report_context>>

\* Variant of ExitEarly: the early return is missing
ExitEarly_never(queries) == FALSE

\* line 344: `if not new_search_queries`
ExitEarly(queries) == ~Truthy(queries)

\* lines 343-347: the initial query generation returns
GenerateQueries ==
    /\ pc = "generate"
    /\ \E outcome \in InitialReplies :
          LET queries == generate_search_queries_async(outcome) IN
          /\ new_search_queries' = queries
          /\ initial_queries' = queries
          /\ IF ExitEarly(queries)
             THEN /\ pc' = "returned"
                  /\ UNCHANGED <<error, all_search_queries>>
             ELSE IF Iterable(queries)
             THEN /\ all_search_queries' = Extend(all_search_queries, queries.items)
                  /\ pc' = "while"
                  /\ error' = error
             ELSE /\ Raise("TypeError")
                  /\ UNCHANGED all_search_queries
    /\ UNCHANGED <<aggregated_contexts, iteration, final_report, rounds,
                   decide_calls, report_calls, report_context, query_request,
                   searched_queries>>
    /\ UNCHANGED round_vars
    /\ UNCHANGED config_vars

\* Variant of WhileCond: the comparison is off by one
WhileCond_inclusive(i, n) == i <= n

\* line 349: the loop condition
WhileCond(i, n) == i < n

\* Variant of AddLink: the membership test is missing, so a later query
\* overwrites the attribution (the link keeps its place in the dict)
AddLink_overwrite(map, link, query) ==
    IF \E i \in 1..Len(map) : map[i].link = link
    THEN [i \in 1..Len(map) |->
             IF map[i].link = link THEN [link |-> link, query |-> query] ELSE map[i]]
    ELSE Append(map, [link |-> link, query |-> query])

\* lines 362-363: a link not yet in the dict is attributed to the query
AddLink(map, link, query) ==
    IF \E i \in 1..Len(map) : map[i].link = link
    THEN map
    ELSE Append(map, [link |-> link, query |-> query])

\* lines 361-363
RECURSIVE AddLinks(_, _, _)
AddLinks(map, links, query) ==
    IF links = <<>> THEN map
    ELSE AddLinks(AddLink(map, Head(links), query), Tail(links), query)

\* lines 358-363, from the idx-th search result on
RECURSIVE BuildLinks(_, _, _, _)
BuildLinks(map, results, queries, idx) ==
    IF idx > Len(results) THEN map
    ELSE BuildLinks(AddLinks(map, results[idx], queries[idx]), results, queries, idx + 1)

\* lines 349-363: the searches run one after the other and the dict is
\* built from their results
StartRound ==
    /\ pc = "while"
    /\ WhileCond(iteration, n_iterations)
    /\ rounds' = rounds + 1
    /\ searched_queries' = searched_queries \o new_search_queries.items
    /\ \E outcomes \in SearchReplies(new_search_queries.items) :
          LET results == [i \in DOMAIN outcomes |-> perform_ddg_search(outcomes[i])] IN
          /\ search_results' = results
          /\ IF IntIndexable(new_search_queries) \/ Len(results) = 0
             THEN /\ unique_links' = BuildLinks(<<>>, results, new_search_queries.items, 1)
                  /\ pc' = "mapped"
                  /\ error' = error
             ELSE /\ unique_links' = <<>>
                  /\ Raise("KeyError")
    /\ UNCHANGED <<tasks, finished, final_report, initial_queries, decide_calls,
                   report_calls, report_context, query_request>>
    /\ UNCHANGED loop_vars
    /\ UNCHANGED config_vars

\* line 368: one coroutine per link of the dict, waiting for its page
NewTask == [pc |-> "fetch", page_text |-> "", request |-> NoRequest, result |-> None]

\* lines 365-369, up to the await on asyncio.gather: the link coroutines
\* are created and started.  search_results is not read after line 363 and
\* is dropped here.
LaunchLinks ==
    /\ pc = "mapped"
    /\ tasks' = [i \in 1..Len(unique_links) |-> NewTask]
    /\ finished' = <<>>
    /\ search_results' = <<>>
    /\ pc' = "gather"
    /\ UNCHANGED <<error, unique_links, final_report>>
    /\ UNCHANGED history_vars
    /\ UNCHANGED loop_vars
    /\ UNCHANGED config_vars

\* line 349 false, then lines 394-395: the budget is used up
LeaveLoop ==
    /\ pc = "while"
    /\ ~WhileCond(iteration, n_iterations)
    /\ StartReport(aggregated_contexts)
    /\ UNCHANGED <<final_report, rounds, initial_queries, decide_calls,
                   query_request, searched_queries>>
    /\ UNCHANGED loop_vars
    /\ UNCHANGED round_vars
    /\ UNCHANGED config_vars

\* ------------------------------------------------------ link coroutines

\* Variant of Return: the coroutines put their results into one shared
\* list as they finish, so a result lands in the slot of its finishing rank
Return_shared(i, res) ==
    /\ tasks' = [k \in 1..Len(tasks) |->
                    [pc |-> IF k = i THEN "done" ELSE tasks[k].pc,
                     page_text |-> IF k = i THEN "" ELSE tasks[k].page_text,
                     request |-> IF k = i THEN NoRequest ELSE tasks[k].request,
                     result |-> IF k = Len(finished) + 1 THEN res ELSE tasks[k].result]]
    /\ finished' = Append(finished, i)

\* A coroutine returns: its frame is gone, gather keeps its result
Return(i, res) ==
    /\ tasks' = [tasks EXCEPT ![i] = [pc |-> "done", page_text |-> "",
                                       request |-> NoRequest, result |-> res]]
    /\ finished' = Append(finished, i)

\* lines 231-243: the page GET of link i returns, the page is converted
\* and the usefulness question is sent
FetchPage(i) ==
    /\ pc = "gather"
    /\ tasks[i].pc = "fetch"
    /\ \E outcome \in FetchReplies(unique_links[i].link) :
          LET page == fetch_webpage_text_async(outcome)
              converted == HTML2Text(page)
          IN IF page = "" \/ ~converted.ok
             THEN Return(i, None)
             ELSE /\ tasks' = [tasks EXCEPT ![i] = [pc |-> "useful",
                                                     page_text |-> converted.text,
                                                     request |-> NoRequest,
                                                     result |-> None]]
                  /\ UNCHANGED finished
    /\ UNCHANGED <<pc, error, search_results, unique_links, final_report>>
    /\ UNCHANGED history_vars
    /\ UNCHANGED loop_vars
    /\ UNCHANGED config_vars

\* Variant of ShouldExtract: the verdict is not looked at
ShouldExtract_always(useful) == TRUE

\* line 246: `if useful == "Yes"`
ShouldExtract(useful) == useful = "Yes"

\* lines 243-247: the usefulness verdict of link i arrives; on "Yes" the
\* extraction request is sent
JudgePage(i) ==
    /\ pc = "gather"
    /\ tasks[i].pc = "useful"
    /\ \E outcome \in UsefulReplies(unique_links[i].link) :
          LET useful == is_page_useful_async(outcome) IN
          IF ShouldExtract(useful)
          THEN /\ tasks' = [tasks EXCEPT ![i].pc = "extract",
                                         ![i].request =
                                             ExtractRequest(user_query,
                                                            unique_links[i].query,
                                                            tasks[i].page_text)]
               /\ UNCHANGED finished
          ELSE Return(i, None)
    /\ UNCHANGED <<pc, error, search_results, unique_links, final_report>>
    /\ UNCHANGED history_vars
    /\ UNCHANGED loop_vars
    /\ UNCHANGED config_vars

\* lines 247-251: the extraction of link i arrives
ExtractContext(i) ==
    /\ pc = "gather"
    /\ tasks[i].pc = "extract"
    /\ \E outcome \in RelevantReplies(unique_links[i].link) :
          LET context == extract_relevant_context_async(outcome) IN
          IF Truthy(context) THEN Return(i, context) ELSE Return(i, None)
    /\ UNCHANGED <<pc, error, search_results, unique_links, final_report>>
    /\ UNCHANGED history_vars
    /\ UNCHANGED loop_vars
    /\ UNCHANGED config_vars

\* ------------------------------------------------------------- the join

\* Variant of GatherReady: the wait returns when the first coroutine is done
GatherReady_first(ts) == Len(ts) = 0 \/ \E i \in 1..Len(ts) : ts[i].pc = "done"

\* line 369: `await asyncio.gather(*link_tasks)` resumes
GatherReady(ts) == \A i \in 1..Len(ts) : ts[i].pc = "done"

\* Variant of GatherResults: results are taken in completion order
GatherResults_completion(ts, order) == [k \in 1..Len(order) |-> ts[order[k]].result]

\* line 369: gather's result list is in the order of its arguments
GatherResults(ts, order) == [i \in 1..Len(ts) |-> ts[i].result]

\* lines 369-379, up to the await in get_new_search_queries_async: gather
\* hands over the results of the finished coroutines, the non-empty ones
\* are aggregated, the context is joined and the replanning request is sent
Aggregate ==
    /\ pc = "gather"
    /\ GatherReady(tasks)
    /\ LET link_results == GatherResults(tasks, finished)
           iteration_contexts == SelectSeq(link_results, Truthy)
           contexts == aggregated_contexts \o iteration_contexts
       IN /\ aggregated_contexts' = contexts
          /\ IF JoinOK(contexts)
             THEN /\ pc' = "decide"
                  /\ error' = error
                  /\ decide_calls' = decide_calls + 1
                  /\ query_request' = ReplanRequest(user_query, all_search_queries,
                                                    contexts, ReplanNQueries)
             ELSE /\ Raise("TypeError")
                  /\ UNCHANGED <<decide_calls, query_request>>
    /\ tasks' = <<>>
    /\ finished' = <<>>
    /\ UNCHANGED <<new_search_queries, all_search_queries, iteration, final_report,
                   rounds, initial_queries, report_calls, report_context,
                   searched_queries, search_results, unique_links>>
    /\ UNCHANGED config_vars

\* lines 279-291 and 381-391: the replanning reply arrives
Decide ==
    /\ pc = "decide"
    /\ \E outcome \in ReplanReplies :
          LET queries == get_new_search_queries_async(outcome) IN
          /\ new_search_queries' = queries
          /\ IF queries = JStr(<<>>)
             THEN /\ StartReport(aggregated_contexts)
                  /\ UNCHANGED <<all_search_queries, iteration>>
             ELSE IF Truthy(queries)
             THEN IF Iterable(queries)
                  THEN /\ all_search_queries' = Extend(all_search_queries, queries.items)
                       /\ iteration' = iteration + 1
                       /\ pc' = "while"
                       /\ UNCHANGED <<error, report_calls, report_context>>
                  ELSE /\ Raise("TypeError")
                       /\ UNCHANGED <<all_search_queries, iteration, report_calls,
                                      report_context>>
             ELSE /\ StartReport(aggregated_contexts)
                  /\ UNCHANGED <<all_search_queries, iteration>>
    /\ UNCHANGED <<aggregated_contexts, final_report, rounds, initial_queries,
                   decide_calls, query_request, searched_queries>>
    /\ UNCHANGED round_vars
    /\ UNCHANGED config_vars

\* lines 310-311 and 395-397: the report reply arrives and is printed
Report ==
    /\ pc = "report"
    /\ \E outcome \in ReportReplies :
          LET report == call_llamacpp_async(outcome) IN
          final_report' = IF HasReply(report) THEN report ELSE NoReportGenerated
    /\ pc' = "done"
    /\ UNCHANGED error
    /\ UNCHANGED history_vars
    /\ UNCHANGED loop_vars
    /\ UNCHANGED round_vars
    /\ UNCHANGED config_vars

LinkStep == \E i \in 1..Len(tasks) : FetchPage(i) \/ JudgePage(i) \/ ExtractContext(i)

Next ==
    \/ GenerateQueries
    \/ StartRound
    \/ LaunchLinks
    \/ LeaveLoop
    \/ LinkStep
    \/ Aggregate
    \/ Decide
    \/ Report

Spec == Init /\ [][Next]_vars

SpecReplay == InitReplay /\ [][Next]_vars

SpecLink == InitLink /\ [][Next]_vars

\* A request with a timer comes to an end: it is answered, or the timer
\* fires and the call raises (one of the outcomes of the call).  A request
\* whose timeout is 0 has no timer and may wait for ever.
TimerOn(timeout) == timeout > 0

\* line 132: a page GET comes to an end
PageGetEnds == TimerOn(FetchTimeout) /\ \E i \in 1..Len(tasks) : FetchPage(i)

\* line 50: a chat-completion POST of a link coroutine comes to an end
LinkModelCallEnds ==
    TimerOn(LlamaTimeout) /\ \E i \in 1..Len(tasks) : JudgePage(i) \/ ExtractContext(i)

\* The event loop runs a coroutine that is ready, and a request comes to an
\* end if its timer is on
SpecTimed ==
    /\ Init
    /\ [][Next]_vars
    /\ WF_vars(LaunchLinks)
    /\ WF_vars(Aggregate)
    /\ WF_vars(LeaveLoop)
    /\ WF_vars(PageGetEnds)
    /\ WF_vars(LinkModelCallEnds)


\* ----------------------------------------------------------- properties

Range(seq) == {seq[i] : i \in 1..Len(seq)}

\* C1: async_main runs at most n_iterations rounds, and when the loop head
\* is reached with the iteration count at n_iterations the next step is the
\* report request, whatever the last replanning call returned.
C1_BoundedRounds ==
    /\ [](rounds <= n_iterations /\ iteration <= n_iterations)
    /\ [][(pc = "while" /\ iteration >= n_iterations) => pc' = "report"]_vars

\* The budget is used up after a replanning call that proposed new queries
C1_Witness ==
    /\ pc = "report"
    /\ n_iterations = MaxIterations
    /\ rounds = n_iterations
    /\ iteration = n_iterations
    /\ new_search_queries.t = "list"
    /\ Len(new_search_queries.items) > 0

\* The first query of the round, in query order, whose results hold the link
FirstQueryWith(link) ==
    LET idx == CHOOSE i \in 1..Len(search_results) :
                   /\ link \in Range(search_results[i])
                   /\ \A j \in 1..(i - 1) : link \notin Range(search_results[j])
    IN new_search_queries.items[idx]

\* C2: the round's link dict has every discovered URL as a key exactly
\* once, no URL that no search returned, and attributes each URL to the
\* first query of the round whose results contain it.
C2_FirstSeenWins ==
    pc = "mapped" =>
        /\ \A i, j \in 1..Len(unique_links) :
               unique_links[i].link = unique_links[j].link => i = j
        /\ {unique_links[i].link : i \in 1..Len(unique_links)}
               = UNION {Range(search_results[k]) : k \in 1..Len(search_results)}
        /\ \A i \in 1..Len(unique_links) :
               unique_links[i].query = FirstQueryWith(unique_links[i].link)

\* Two different queries of one round both returned the same URL
C2_Witness ==
    /\ pc = "mapped"
    /\ Len(search_results) = 2
    /\ new_search_queries.items[1] # new_search_queries.items[2]
    /\ \E i \in 1..Len(unique_links) :
           /\ unique_links[i].link \in Range(search_results[1])
           /\ unique_links[i].link \in Range(search_results[2])
           /\ unique_links[i].query = new_search_queries.items[1]

\* C3: the aggregated context is extended and the replanning request is
\* sent only at the join, with every link coroutine of the round (one per
\* link of the dict) returned.
C3_JoinBarrier ==
    [][(aggregated_contexts' # aggregated_contexts \/ decide_calls' # decide_calls)
          => /\ pc = "gather"
             /\ Len(tasks) = Len(unique_links)
             /\ \A i \in 1..Len(tasks) : tasks[i].pc = "done"]_vars

\* One coroutine has returned a fragment while another is still running
C3_Witness ==
    /\ pc = "gather"
    /\ \E i, j \in 1..Len(tasks) :
           /\ tasks[i].pc = "done"
           /\ Truthy(tasks[i].result)
           /\ tasks[j].pc # "done"

\* The results of the round's coroutines in the insertion order of the dict
ResultsInLinkOrder == [i \in 1..Len(unique_links) |-> tasks[i].result]

\* C4: the aggregated context changes only at the join of a round, and
\* there it is extended by the round's non-empty fragments in the insertion
\* order of the round's dict, for every completion order; what it held
\* before stays in place.
C4_ContextConcatenation ==
    [][aggregated_contexts' =
          IF pc = "gather" /\ pc' # "gather"
          THEN aggregated_contexts \o SelectSeq(ResultsInLinkOrder, Truthy)
          ELSE aggregated_contexts]_vars

\* In a later round the second link's coroutine returned before the
\* first one's, both with a fragment, on top of an earlier round's context
C4_Witness ==
    /\ pc = "gather"
    /\ rounds >= 2
    /\ Len(aggregated_contexts) >= 1
    /\ finished = <<2, 1>>
    /\ Truthy(tasks[1].result)
    /\ Truthy(tasks[2].result)
    /\ tasks[1].result # tasks[2].result

\* C5: when the initial query generation returns an empty list the session
\* ends at once: no round (search), no link coroutine (fetch, evaluation),
\* no replanning request and no report request is ever made.
C5_EmptyInitialEndsSession ==
    (pc # "generate" /\ initial_queries = JList(<<>>)) =>
        /\ pc = "returned"
        /\ rounds = 0
        /\ search_results = <<>>
        /\ unique_links = <<>>
        /\ tasks = <<>>
        /\ decide_calls = 0
        /\ report_calls = 0
        /\ final_report = NotYet

C5_Witness == pc = "returned" /\ initial_queries = JList(<<>>)

\* C6: once the rounds of a session that began with a query list are under
\* way, no uncaught error escapes async_main, whatever fails in a round.
C6_NoUncaughtError ==
    (initial_queries.t = "list" /\ rounds >= 1) => pc # "crashed"

\* C7: a session whose initial query generation returned a non-empty query
\* list ends with exactly one report request, made with the full aggregated
\* context.
C7_ReportExactlyOnce ==
    (pc \in {"done", "crashed"} /\ initial_queries.t = "list" /\ Truthy(initial_queries))
        => /\ report_calls = 1
           /\ report_context = Join(aggregated_contexts)

\* C8: after a replanning call the loop goes on to another round exactly
\* when the reply parsed to a non-empty list under "queries", which is then
\* appended to the history and is the next query set; in every other case
\* the report is requested and no error is raised.
C8_ContinueOnlyOnQueryList ==
    [][pc = "decide" =>
          IF new_search_queries'.t = "list" /\ Len(new_search_queries'.items) > 0
          THEN /\ pc' = "while"
               /\ all_search_queries' = all_search_queries \o new_search_queries'.items
          ELSE pc' = "report"]_vars

\* C10: every round that was started has issued exactly one replanning
\* request once it is over, and none before its join.
C10_OneDecidePerRound ==
    (pc # "generate" /\ initial_queries.t = "list") =>
        /\ pc \in {"mapped", "gather"} => decide_calls = rounds - 1
        /\ pc \notin {"mapped", "gather"} => decide_calls = rounds


\* What a session leaves behind when it has ended
Outcome(p, e, r, history, contexts, links, report_text, report) ==
    [pc |-> p, error |-> e, rounds |-> r, all_search_queries |-> history,
     aggregated_contexts |-> contexts, unique_links |-> links,
     report_context |-> report_text, final_report |-> report]

\* The report step of the sequential run
SequentialReport(r, history, contexts, links) ==
    LET report == call_llamacpp_async(ScriptedReport) IN
    Outcome("done", "", r, history, contexts, links, Join(contexts),
            IF HasReply(report) THEN report ELSE NoReportGenerated)

\* The session run against the script with the links of each round
\* processed one after the other, in the insertion order of the dict:
\* r rounds are over, queries is the current query set.
RECURSIVE SequentialRun(_, _, _, _, _)
SequentialRun(r, queries, history, contexts, links) ==
    IF r >= n_iterations THEN SequentialReport(r, history, contexts, links)
    ELSE IF queries.t \notin {"list", "str"}
    THEN Outcome("crashed", "KeyError", r + 1, history, contexts, <<>>, <<>>, NotYet)
    ELSE
    LET results == [i \in 1..Len(queries.items) |->
                       perform_ddg_search(replay.search[queries.items[i]])]
        map == BuildLinks(<<>>, results, queries.items, 1)
        link_results == [i \in 1..Len(map) |->
                            process_link(replay.link[map[i].link].fetch,
                                         replay.link[map[i].link].useful,
                                         replay.link[map[i].link].relevant)]
        after == contexts \o SelectSeq(link_results, Truthy)
        next == get_new_search_queries_async(replay.queries[r + 2])
    IN IF \E i \in 1..Len(after) : after[i].t # "str"
       THEN Outcome("crashed", "TypeError", r + 1, history, after, map, <<>>, NotYet)
       ELSE IF next.t \in {"list", "str", "dict"} /\ Len(next.items) > 0
       THEN SequentialRun(r + 1, next, history \o next.items, after, map)
       ELSE SequentialReport(r + 1, history, after, map)

\* The sequential run from the scripted reply to the initial generation
SequentialSession ==
    LET queries == generate_search_queries_async(replay.queries[1]) IN
    IF queries.t \in {"list", "str", "dict"} /\ Len(queries.items) > 0
    THEN SequentialRun(0, queries, queries.items, <<>>, <<>>)
    ELSE Outcome("returned", "", 0, <<>>, <<>>, <<>>, <<>>, NotYet)

\* C9: a session replayed against a fixed script of responses ends, under
\* every interleaving of its link coroutines, in the state the sequential
\* run of the same script ends in: the same number of rounds, query
\* history, link dict, aggregated context, report request and report text.
C9_ReplayDeterminism ==
    pc \in {"done", "returned", "crashed"} =>
        Outcome(pc, error, rounds, all_search_queries, aggregated_contexts,
                unique_links, report_context, final_report) = SequentialSession

\* A replayed session of two rounds has reported on at least three fragments
C9_Witness ==
    /\ replay.on
    /\ pc = "done"
    /\ rounds = 2
    /\ Len(aggregated_contexts) >= 3
    /\ \E i, j \in 1..Len(aggregated_contexts) : aggregated_contexts[i] # aggregated_contexts[j]

\* The scripted responses to the requests of the i-th link coroutine
LinkScript(i) == replay.link[unique_links[i].link]

\* The page GET of the i-th link gave a non-empty page that converts
Fetched(i) ==
    LET page == fetch_webpage_text_async(LinkScript(i).fetch) IN
    page # "" /\ HTML2Text(page).ok

\* The usefulness verdict on the i-th link is "Yes"
JudgedUseful(i) == is_page_useful_async(LinkScript(i).useful) = "Yes"

\* What the extraction for the i-th link returns
Extracted(i) == extract_relevant_context_async(LinkScript(i).relevant)

\* C11: process_link returns a context fragment exactly when the fetch gave
\* a non-empty page, the conversion to text succeeded, the usefulness
\* verdict was "Yes" and the extraction came back non-empty, and then it
\* returns that extraction; in every other case it returns None.  The
\* usefulness question is sent only for a fetched and converted page, and
\* the extraction request only after the verdict "Yes".
C11_LinkEvaluation ==
    \A i \in 1..Len(tasks) :
        /\ tasks[i].pc = "useful" => Fetched(i)
        /\ tasks[i].pc = "extract" => Fetched(i) /\ JudgedUseful(i)
        /\ tasks[i].pc = "done" =>
              /\ tasks[i].result # None <=>
                    Fetched(i) /\ JudgedUseful(i) /\ Truthy(Extracted(i))
              /\ tasks[i].result # None => tasks[i].result = Extracted(i)

\* A link coroutine of a scripted one-link session has returned a fragment
C11_Witness ==
    /\ replay.on
    /\ \E i \in 1..Len(tasks) :
          tasks[i].pc = "done" /\ tasks[i].result # None /\ Fetched(i)

\* The value a usefulness response carries under "useful", None if there is
\* no reply, no JSON object in it or no such key
UsefulValue(outcome) ==
    IF outcome.status = "ok" /\ outcome.content.kind = "json"
       /\ outcome.content.key = "useful"
    THEN outcome.content.val
    ELSE None

\* `"Yes" in v` for a string (substring) or a list or dict (element)
NamesYes(v) ==
    \/ v.t = "str" /\ IsSubstring(Yes, v.items)
    \/ v.t \in {"list", "dict"} /\ "Yes" \in Range(v.items)

\* The verdict the claim describes for a usefulness response
DescribedVerdict(outcome) ==
    LET v == UsefulValue(outcome) IN
    IF v = JStr(Yes) THEN "Yes"
    ELSE IF v = JStr(No) THEN "No"
    ELSE IF NamesYes(v) THEN "Yes"
    ELSE "No"

\* C12: is_page_useful_async returns "Yes" or "No" and nothing else, for
\* every response of the model endpoint: the value under "useful" when it
\* is exactly "Yes" or "No", otherwise "Yes" or "No" by a containment test
\* on the value, and "No" when neither is contained, when there is no
\* reply, no valid JSON, or the key is missing or empty.  The link
\* coroutine goes on to the extraction exactly on "Yes".
C12_UsefulVerdict ==
    [][\A i \in 1..Len(tasks) :
          (tasks[i].pc = "useful" /\ tasks'[i].pc # "useful") =>
              LET verdict == is_page_useful_async(LinkScript(i).useful) IN
              /\ verdict \in {"Yes", "No"}
              /\ verdict = DescribedVerdict(LinkScript(i).useful)
              /\ tasks'[i].pc = "extract" <=> verdict = "Yes"
              /\ tasks'[i].pc = "done" <=> verdict = "No"]_vars

\* A page was judged useful on a value that only contains "Yes"
C12_Witness ==
    /\ replay.on
    /\ \E i \in 1..Len(tasks) :
          /\ tasks[i].pc = "extract"
          /\ UsefulValue(LinkScript(i).useful) = JStr(<<"Y", "e", "s", "!">>)

\* C13: every session comes to an end in Done: a session that entered the
\* loop and can take no further step has printed its report, so that the
\* loop was left because the budget was used up or because the replanning
\* yielded no new queries.
C13_EndsInDone ==
    (initial_queries.t = "list" /\ rounds >= 1) => (ENABLED Next \/ pc = "done")

\* C14: while the reply to a replanning request is awaited, the text of
\* that request holds the user query, the whole query history and the
\* whole aggregated context (joined as line 260 joins it).
C14_ReplanRequestCarriesState ==
    pc = "decide" =>
        /\ query_request.user_query = Interpolated(<<user_query>>)
        /\ query_request.previous_search_queries.interpolated
        /\ query_request.previous_search_queries.text = all_search_queries
        /\ query_request.context_combined.interpolated
        /\ query_request.context_combined.text = Join(aggregated_contexts)

\* C15: while the reply to the extraction request of a link is awaited,
\* the text of that request holds the user query, the query the link is
\* attributed to in the link dict, and the text of the link's page.
C15_ExtractRequestCarriesPage ==
    \A i \in 1..Len(tasks) :
        tasks[i].pc = "extract" =>
            /\ tasks[i].request.user_query = Interpolated(<<user_query>>)
            /\ tasks[i].request.search_query.interpolated
            /\ tasks[i].request.search_query.text = <<unique_links[i].query>>
            /\ tasks[i].request.page_text.interpolated
            /\ tasks[i].request.page_text.text = <<tasks[i].page_text>>

\* C16: every request of a link evaluation has a timer, so the link
\* coroutines of a round all return, the join completes and the round goes
\* on past the join.
C16_LinkRoundResolves == (pc = "gather") ~> (pc # "gather")

\* C17: generate_search_queries_async returns a list in every case: what
\* async_main receives from the initial query generation is a list.
C17_GenerateReturnsList == pc # "generate" => initial_queries.t = "list"

\* C18: while the reply to a request for queries is awaited, be it the
\* initial one or the replanning of a round, the text of that request asks
\* for up to config["n_queries"] queries.
C18_RequestedCount ==
    pc \in {"generate", "decide"} =>
        /\ query_request.prompt.interpolated
        /\ query_request.prompt.text = QueriesPrompt(n_queries)

IsPrefix(s, t) == Len(s) <= Len(t) /\ SubSeq(t, 1, Len(s)) = s

\* The queries that were recorded in the history and not searched when
\* the loop was left: the last query set, if the budget ran out
Unsearched == IF iteration >= n_iterations THEN new_search_queries.items ELSE <<>>

\* C19 as stated: at every replanning request and at the report request
\* of a session that ran a round, the history is the concatenation, in
\* round order, of the query sets that were handed to the search provider.
C19_HistoryIsSearched ==
    (rounds >= 1 /\ pc \in {"decide", "report", "done"}) =>
        all_search_queries = searched_queries

\* C19 as amended: the history only grows at its end; every searched query
\* is in it, in the order of the searches; at every replanning request it
\* is the concatenation of the searched query sets; at the report request
\* it is that concatenation, followed by the last proposed query set if the
\* loop ended because the budget ran out before that set was searched.
C19_HistoryIsSearchedThenProposed ==
    /\ [][IsPrefix(all_search_queries, all_search_queries')]_vars
    /\ [](IsPrefix(searched_queries, all_search_queries))
    /\ [](pc = "decide" => all_search_queries = searched_queries)
    /\ [](pc \in {"report", "done"} =>
              all_search_queries = searched_queries \o Unsearched)

\* The report is requested after a round, with queries in the history
\* that were never searched
C19_Witness ==
    /\ pc = "report"
    /\ rounds >= 1
    /\ all_search_queries # searched_queries

====
